---- MODULE Spec2Model ----
(***************************************************************************)
(* Eureka Go client: URL normaliser, transport client with failover, and   *)
(* the facade client bound to one application identity.                    *)
(*                                                                         *)
(* Strings that the code inspects character by character (base URLs) are   *)
(* sequences of one-character strings.  A Go error is the sequence of its  *)
(* wrapping layers, outermost first; the nil error is the empty sequence.  *)
(***************************************************************************)
EXTENDS Integers, Sequences, FiniteSets, TLC

VARIABLES
    \* --- URL normaliser under test (SpecURL) ---
    rawURL,     \* the base URL string handed to normalizeBaseURL
    norm,       \* result of normalizeBaseURL(rawURL), or Null before the call
    renorm,     \* result of normalizeBaseURL on norm's output, or Null
    \* --- construction under test (SpecNew) ---
    newArgs,    \* the argument list of NewClient / NewEurekaAPIClient
    newRet,     \* what the constructor returned, or Null before the call
    \* --- one constructed client and the call it is serving (Spec) ---
    baseURLs,   \* EurekaAPIClient.baseURLs
    facade,     \* Client{appID, host, port, instanceID}
    pc,         \* "idle" | "failover" | "done" (returned, result in ret/fret)
                \* | "panic" (the process died on a nil response)
    op,         \* the operation being served and its arguments
    ctx,        \* the caller's context: "live" | "canceled" | "expired"
    ctx0,       \* the context as it was when the call started
    net,        \* what the server behind each configured URL does when reached
    idx,        \* position of the failover loop in baseURLs
    attempts,   \* the doRequest calls of this operation, in order
    lastErr,    \* doRequestWithFailOver's lastErr
    foRet,      \* what doRequestWithFailOver returned: [resp, err], or Null
    ret,        \* what the transport operation returned
    fret,       \* what the facade operation returned
    \* --- the XML wire model under test (SpecXML) ---
    inst,       \* the eurekaapi.Instance handed to xml.Marshal
    wire,       \* the XML document xml.Marshal produced, or Null
    decoded,    \* the Instance xml.Unmarshal filled from wire, or Null
    \* --- several callers on one client (SpecConc) ---
    transport,  \* c.client.Transport: the wrappers applied to the base
                \* transport, innermost first
    callers,    \* per caller: where it is in its call, and its locals
    \* --- the example client process (SpecMain) ---
    mpc,        \* position of main
    hpc,        \* position of the goroutine in periodicallySendHeartbeat
    spc,        \* position of the goroutine creating the HTTP server
    sigCtx,     \* the signal.NotifyContext context: "live" | "done"
    tick,       \* a tick is waiting in ticker.C
    calls,      \* the facade calls the process has made, in order
    shutdownCtx \* the context of line 72: "none" | "live" | "expired"

urlVars == <<rawURL, norm, renorm>>
newVars == <<newArgs, newRet>>
cliVars == <<baseURLs, facade>>
callVars == <<pc, op, ctx, ctx0, net, idx, attempts, lastErr, foRet, ret, fret>>
xmlVars == <<inst, wire, decoded>>
concVars == <<transport, callers>>
mainVars == <<mpc, hpc, spc, sigCtx, tick, calls, shutdownCtx>>
vars == <<rawURL, norm, renorm, newArgs, newRet, baseURLs, facade,
          pc, op, ctx, ctx0, net, idx, attempts, lastErr, foRet, ret, fret,
          inst, wire, decoded, transport, callers,
          mpc, hpc, spc, sigCtx, tick, calls, shutdownCtx>>

Null == [nil |-> TRUE]
NoErr == <<>>

\* ------------------------------------------------------------------ bounds
MaxSegs == 3      \* path segments of a generated base URL
MaxURLs == 3      \* base URLs handed to a constructor / held by a client
MaxLiveURLs == 2  \* the same, where whole behaviours are checked (SpecLive)
MaxEntries == 2   \* metadata entries of a generated Instance
NumCallers == 2   \* goroutines calling one client at the same time
MaxWraps == 2     \* WrapTransport calls made on one client
MaxBeats == 3     \* heartbeats the example process sends

\* ----------------------------------------------------------------- strings
sHTTP == <<"h", "t", "t", "p">>
sHTTPUpper == <<"H", "T", "T", "P">>
sEureka == <<"e", "u", "r", "e", "k", "a">>
sEurekaUpper == <<"E", "U", "R", "E", "K", "A">>
sV2 == <<"v", "2">>
sV2Upper == <<"V", "2">>
sSlash == <<"/">>
sColon == <<":">>

Letters == {"a", "e", "g", "h", "k", "p", "r", "t", "u", "v", "x",
            "A", "E", "H", "K", "P", "R", "T", "U", "V"}
Digits == {"1", "2", "3", "4", "5"}

LowerChar(c) ==
    CASE c = "A" -> "a" [] c = "E" -> "e" [] c = "H" -> "h"
      [] c = "K" -> "k" [] c = "P" -> "p" [] c = "R" -> "r"
      [] c = "T" -> "t" [] c = "U" -> "u" [] c = "V" -> "v"
      [] OTHER -> c

ToLower(s) == [i \in 1..Len(s) |-> LowerChar(s[i])]

EqualFold(s, t) ==
    /\ Len(s) = Len(t)
    /\ \A i \in 1..Len(s) : LowerChar(s[i]) = LowerChar(t[i])

HasPrefix(s, p) == Len(s) >= Len(p) /\ SubSeq(s, 1, Len(p)) = p

\* strings.TrimSuffix in its place: one trailing c removed at most
TrimSuffixOnce(s, c) ==
    IF s # <<>> /\ s[Len(s)] = c THEN SubSeq(s, 1, Len(s) - 1) ELSE s

RECURSIVE TrimRight(_, _)
TrimRight(s, c) ==
    IF s # <<>> /\ s[Len(s)] = c THEN TrimRight(SubSeq(s, 1, Len(s) - 1), c)
    ELSE s

\* index of the first occurrence of character c in s, 0 when there is none
IndexOf(s, c) ==
    IF \E i \in 1..Len(s) : s[i] = c
    THEN CHOOSE i \in 1..Len(s) : s[i] = c /\ \A j \in 1..(i - 1) : s[j] # c
    ELSE 0

Drop(s, n) == SubSeq(s, n + 1, Len(s))

\* ------------------------------------------------------------- net/url
\* url.Parse on strings over letters, digits, ':' and '/'.
\* getScheme: a run of letters followed by ':' is the scheme; a leading ':'
\* is an error; any other character first ends the scan without a scheme.
RECURSIVE SchemeEnd(_, _)
SchemeEnd(s, i) ==
    IF i > Len(s) THEN 0
    ELSE IF s[i] \in Letters THEN SchemeEnd(s, i + 1)
    ELSE IF s[i] \in Digits THEN (IF i = 1 THEN 0 ELSE SchemeEnd(s, i + 1))
    ELSE IF s[i] = ":" THEN (IF i = 1 THEN -1 ELSE i)
    ELSE 0

\* parseHost/validOptionalPort: what follows the last ':' must be digits
ValidHost(h) ==
    LET c == IndexOf(h, ":")
    IN  c = 0 \/ \A j \in (c + 1)..Len(h) : h[j] \in Digits

URLParse(s) ==
    LET e == SchemeEnd(s, 1)
        scheme == IF e > 0 THEN ToLower(SubSeq(s, 1, e - 1)) ELSE <<>>
        rest == IF e > 0 THEN Drop(s, e) ELSE s
        seg1 == IF IndexOf(rest, "/") = 0 THEN rest
                ELSE SubSeq(rest, 1, IndexOf(rest, "/") - 1)
        auth0 == Drop(rest, 2)
        cut == IndexOf(auth0, "/")
        authority == IF cut = 0 THEN auth0 ELSE SubSeq(auth0, 1, cut - 1)
        after == IF cut = 0 THEN <<>> ELSE Drop(auth0, cut - 1)
        bad == [ok |-> FALSE, Scheme |-> <<>>, Opaque |-> <<>>,
                Host |-> <<>>, Path |-> <<>>, OmitHost |-> FALSE]
    IN  IF e = -1 THEN bad                        \* missing protocol scheme
        ELSE IF ~HasPrefix(rest, sSlash) /\ scheme # <<>>
        THEN [ok |-> TRUE, Scheme |-> scheme, Opaque |-> rest,
              Host |-> <<>>, Path |-> <<>>, OmitHost |-> FALSE]  \* opaque
        ELSE IF ~HasPrefix(rest, sSlash) /\ IndexOf(seg1, ":") # 0
        THEN bad                                  \* colon in first segment
        ELSE IF (scheme # <<>> \/ ~HasPrefix(rest, <<"/", "/", "/">>))
                /\ HasPrefix(rest, <<"/", "/">>)
        THEN IF ValidHost(authority)
             THEN [ok |-> TRUE, Scheme |-> scheme, Opaque |-> <<>>,
                   Host |-> authority, Path |-> after, OmitHost |-> FALSE]
             ELSE bad                             \* invalid port
        ELSE [ok |-> TRUE, Scheme |-> scheme, Opaque |-> <<>>,
              Host |-> <<>>, Path |-> rest,
              OmitHost |-> (scheme # <<>> /\ HasPrefix(rest, sSlash))]

\* (*URL).String for a URL without user info, query or fragment
URLString(u) ==
    LET head == IF u.Scheme # <<>> THEN u.Scheme \o sColon ELSE <<>>
        slashes == IF (u.Scheme # <<>> \/ u.Host # <<>>)
                      /\ ~(u.OmitHost /\ u.Host = <<>>)
                      /\ (u.Host # <<>> \/ u.Path # <<>>)
                   THEN <<"/", "/">> ELSE <<>>
        sep == IF u.Path # <<>> /\ u.Path[1] # "/" /\ u.Host # <<>>
               THEN sSlash ELSE <<>>
    IN  IF u.Opaque # <<>> THEN head \o u.Opaque
        ELSE head \o slashes \o u.Host \o sep \o u.Path

\* ------------------------------------------------------ normalizeBaseURL
defaultBasePath == sSlash \o sEureka \o sSlash \o sV2

\* CanonPath with the /eureka case decided by prefix and tried first
CanonPathByPrefix(p) ==
    IF HasPrefix(ToLower(p), sSlash \o sEureka) THEN p \o sSlash \o sV2
    ELSE IF p = <<>> THEN defaultBasePath
    ELSE p

\* CanonPath folding the case of a custom path
CanonPathFolded(p) ==
    IF EqualFold(p, sSlash \o sEureka \o sSlash \o sV2) THEN p
    ELSE IF EqualFold(p, sSlash \o sEureka) THEN p \o sSlash \o sV2
    ELSE IF p = <<>> THEN defaultBasePath
    ELSE ToLower(p)

CanonPath(p) ==
    IF EqualFold(p, sSlash \o sEureka \o sSlash \o sV2) THEN p
    ELSE IF EqualFold(p, sSlash \o sEureka) THEN p \o sSlash \o sV2
    ELSE IF p = <<>> THEN defaultBasePath
    ELSE p

normalizeBaseURL(baseURL) ==
    LET u == URLParse(baseURL)
        p == TrimRight(u.Path, "/")
    IN  IF ~u.ok
        THEN [s |-> <<>>, err |-> <<[msg |-> "parse", url |-> baseURL]>>]
        ELSE IF u.Scheme = <<>> \/ u.Host = <<>>
        THEN [s |-> <<>>,
              err |-> <<[msg |-> "base URL must include scheme and host",
                         url |-> baseURL]>>]
        ELSE [s |-> URLString([u EXCEPT !.Path = CanonPath(p)]), err |-> NoErr]

\* ---------------------------------------------------------- construction
\* the loop of NewEurekaAPIClient over baseURLs[i..], norm the URLs appended
\* so far; it returns at the first URL normalizeBaseURL rejects
RECURSIVE NormalizeAll(_, _, _)
NormalizeAll(urls, i, acc) ==
    IF i > Len(urls) THEN [baseURLs |-> acc, err |-> NoErr]
    ELSE LET r == normalizeBaseURL(urls[i])
         IN  IF r.err # NoErr
             THEN [baseURLs |-> <<>>,
                   err |-> <<[msg |-> "invalid base URL", url |-> urls[i]]>> \o r.err]
             ELSE NormalizeAll(urls, i + 1, Append(acc, r.s))

\* the same loop skipping a rejected URL instead of returning its error
RECURSIVE NormalizeValid(_, _, _)
NormalizeValid(urls, i, acc) ==
    IF i > Len(urls) THEN [baseURLs |-> acc, err |-> NoErr]
    ELSE LET r == normalizeBaseURL(urls[i])
         IN  NormalizeValid(urls, i + 1,
                            IF r.err # NoErr THEN acc ELSE Append(acc, r.s))

NewEurekaAPIClientSkipping(urls) ==
    LET r == NormalizeValid(urls, 1, <<>>)
    IN  [client |-> [baseURLs |-> r.baseURLs], err |-> NoErr]

\* the constructor without the check for an empty list
NewEurekaAPIClientUnchecked(urls) ==
    LET r == NormalizeAll(urls, 1, <<>>)
    IN  IF r.err # NoErr THEN [client |-> Null, err |-> r.err]
        ELSE [client |-> [baseURLs |-> r.baseURLs], err |-> NoErr]

NewEurekaAPIClient(urls) ==
    IF Len(urls) = 0
    THEN [client |-> Null,
          err |-> <<[msg |-> "at least one Eureka base URL is required"]>>]
    ELSE LET r == NormalizeAll(urls, 1, <<>>)
         IN  IF r.err # NoErr THEN [client |-> Null, err |-> r.err]
             ELSE [client |-> [baseURLs |-> r.baseURLs], err |-> NoErr]

\* the instance ID put together as appID:host:port
FormatInstanceIDAppFirst(host, appID, port) ==
    <<appID, ":", host, ":", ToString(port)>>

\* fmt.Sprintf("%s:%s:%d", host, appID, port)
FormatInstanceID(host, appID, port) == <<host, ":", appID, ":", ToString(port)>>

NewClient(urls, appID, host, port) ==
    LET r == NewEurekaAPIClient(urls)
    IN  IF r.err # NoErr THEN [client |-> Null, err |-> r.err]
        ELSE [client |-> [appID |-> appID, host |-> host, port |-> port,
                          instanceID |-> FormatInstanceID(host, appID, port),
                          eurekaAPIClient |-> r.client],
              err |-> NoErr]

\* ------------------------------------------------------- generated inputs
SchemeParts == {<<>>, sHTTP \o sColon, sHTTPUpper \o sColon, sColon}
AuthParts == {<<>>, <<"/", "/">>, <<"/", "/", "h">>,
              <<"/", "/", "h", ":", "1">>, <<"/", "/", "h", ":", "x">>, <<"h">>}
Segs == {<<>>, sEureka, sEurekaUpper, sV2, sV2Upper, <<"x">>}

RECURSIVE PathsOf(_)
PathsOf(n) ==
    IF n = 0 THEN {<<>>}
    ELSE LET shorter == PathsOf(n - 1)
         IN  shorter \cup {p \o sSlash \o g : p \in shorter, g \in Segs}

URLInputs == {a \o b \o p : a \in SchemeParts, b \in AuthParts, p \in PathsOf(MaxSegs)}

\* ----------------------------------------------------------------- SpecURL
Normalize ==
    /\ norm = Null
    /\ norm' = normalizeBaseURL(rawURL)
    /\ UNCHANGED <<rawURL, renorm, newVars, cliVars, callVars, xmlVars, concVars, mainVars>>

Renormalize ==
    /\ norm # Null /\ norm.err = NoErr /\ renorm = Null
    /\ renorm' = normalizeBaseURL(norm.s)
    /\ UNCHANGED <<rawURL, norm, newVars, cliVars, callVars, xmlVars, concVars, mainVars>>

ParkedCall ==
    /\ pc = "idle" /\ op = Null /\ ctx = "live" /\ ctx0 = "live"
    /\ net = <<>> /\ idx = 0 /\ attempts = <<>> /\ lastErr = NoErr
    /\ foRet = Null /\ ret = Null /\ fret = Null

ParkedWire == inst = Null /\ wire = Null /\ decoded = Null

ParkedConc == transport = <<>> /\ callers = <<>>

ParkedMain ==
    /\ mpc = "none" /\ hpc = "none" /\ spc = "none"
    /\ sigCtx = "live" /\ tick = FALSE /\ calls = <<>> /\ shutdownCtx = "none"

InitURL ==
    /\ rawURL \in URLInputs
    /\ norm = Null /\ renorm = Null
    /\ newArgs = Null /\ newRet = Null
    /\ baseURLs = <<>> /\ facade = Null
    /\ ParkedCall /\ ParkedWire /\ ParkedConc /\ ParkedMain

NextURL == Normalize \/ Renormalize

SpecURL == InitURL /\ [][NextURL]_vars

\* ----------------------------------------------------------------- SpecNew
\* base URLs handed to the constructors: valid ones of each path shape, one
\* without a scheme, one without a host, one that does not parse
NewURLSamples ==
    { sHTTP \o <<":", "/", "/", "h">>,
      sHTTPUpper \o <<":", "/", "/", "g">> \o sSlash \o sEureka \o sSlash,
      sHTTP \o <<":", "/", "/", "h", ":", "1">> \o sSlash \o sEurekaUpper
            \o sSlash \o sV2 \o sSlash \o sSlash,
      sHTTP \o <<":", "/", "/", "g">> \o <<"/", "x", "/">>,
      <<"h">> \o sSlash \o sEureka,
      sHTTP \o <<":", "/">> \o sEureka,
      <<":", "/", "/", "h">> }

RECURSIVE SeqsUpTo(_, _)
SeqsUpTo(S, n) ==
    IF n = 0 THEN {<<>>}
    ELSE LET shorter == SeqsUpTo(S, n - 1)
         IN  shorter \cup {Append(q, x) : q \in shorter, x \in S}

AppIDs == {"my-app"}
Hosts == {"10.5.0.50"}
Ports == {8080}

CallNewEurekaAPIClient ==
    /\ newRet = Null /\ newArgs.ctor = "NewEurekaAPIClient"
    /\ newRet' = NewEurekaAPIClient(newArgs.urls)
    /\ UNCHANGED <<newArgs, urlVars, cliVars, callVars, xmlVars, concVars, mainVars>>

CallNewClient ==
    /\ newRet = Null /\ newArgs.ctor = "NewClient"
    /\ newRet' = NewClient(newArgs.urls, newArgs.appID, newArgs.host, newArgs.port)
    /\ UNCHANGED <<newArgs, urlVars, cliVars, callVars, xmlVars, concVars, mainVars>>

InitNew ==
    /\ newArgs \in [ctor : {"NewEurekaAPIClient", "NewClient"},
                    urls : SeqsUpTo(NewURLSamples, MaxURLs),
                    appID : AppIDs, host : Hosts, port : Ports]
    /\ newRet = Null
    /\ rawURL = <<>> /\ norm = Null /\ renorm = Null
    /\ baseURLs = <<>> /\ facade = Null
    /\ ParkedCall /\ ParkedWire /\ ParkedConc /\ ParkedMain

NextNew == CallNewEurekaAPIClient \/ CallNewClient

SpecNew == InitNew /\ [][NextNew]_vars

\* the URL list a returned client holds
HeldURLs(r) ==
    IF newArgs.ctor = "NewClient" THEN r.client.eurekaAPIClient.baseURLs
    ELSE r.client.baseURLs

\* a base URL fails normalisation when it does not parse or lacks a scheme
\* or a host
FailsNormalization(u) ==
    \/ ~URLParse(u).ok
    \/ URLParse(u).Scheme = <<>>
    \/ URLParse(u).Host = <<>>

\* C9: construction fails exactly on an empty or partly invalid URL list
\* A constructor returns an error and no client when it is given no base URL
\* or a base URL that fails normalisation; otherwise it returns no error and
\* a client holding the normalised form of each URL, in the order given.
C9_Construction ==
    (newRet # Null) =>
        IF Len(newArgs.urls) = 0
           \/ \E i \in 1..Len(newArgs.urls) : FailsNormalization(newArgs.urls[i])
        THEN newRet.client = Null /\ newRet.err # NoErr
        ELSE /\ newRet.err = NoErr
             /\ newRet.client # Null
             /\ Len(HeldURLs(newRet)) = Len(newArgs.urls)
             /\ \A i \in 1..Len(newArgs.urls) :
                   HeldURLs(newRet)[i] = normalizeBaseURL(newArgs.urls[i]).s

\* C9 witness: a constructor succeeded on two or more different URLs, the
\* first of which normalisation changes
C9_Witness ==
    /\ newRet # Null /\ newRet.err = NoErr
    /\ Len(newArgs.urls) >= 2
    /\ newArgs.urls[1] # newArgs.urls[2]
    /\ HeldURLs(newRet)[1] # newArgs.urls[1]

\* a constructor rejected a list whose first URL is valid and a later one not
C9_WitnessRejected ==
    /\ newRet # Null /\ newRet.err # NoErr
    /\ Len(newArgs.urls) >= 2
    /\ ~FailsNormalization(newArgs.urls[1])
    /\ newArgs.ctor = "NewClient"

\* C10: normalisation is idempotent
\* Normalising the output of a successful normalizeBaseURL succeeds and
\* returns that output unchanged.
C10_Idempotent ==
    (renorm # Null) => (renorm.err = NoErr /\ renorm.s = norm.s)

\* a mixed-case /EUREKA path with several trailing slashes was normalised
\* to something else and then normalised again
C10_Witness ==
    /\ renorm # Null
    /\ norm.s # rawURL
    /\ \E a \in SchemeParts, b \in AuthParts :
          rawURL = a \o b \o sSlash \o sEurekaUpper \o sSlash \o sSlash

\* ---- the path rules, stated on the text of the URL
\* s without its trailing slashes: the longest prefix not ending in '/'
Stripped(s) ==
    LET n == CHOOSE n \in 0..Len(s) :
                 /\ (n = 0 \/ s[n] # "/")
                 /\ \A j \in (n + 1)..Len(s) : s[j] = "/"
    IN  SubSeq(s, 1, n)

\* the same text in lower case, one character at a time
Folded(s) == [i \in 1..Len(s) |-> LowerChar(s[i])]

\* the URL was accepted; its scheme://host, with the scheme as parsed
\* (url.Parse lowers its case) and the host as written
Accepted == norm # Null /\ norm.err = NoErr
SchemeHost ==
    URLParse(rawURL).Scheme \o <<":", "/", "/">> \o URLParse(rawURL).Host
GivenPath == URLParse(rawURL).Path

\* C11: the three canonical path shapes
\* For an accepted base URL whose path without its trailing slashes reads, in
\* any mix of case, /eureka/v2, /eureka or nothing, the result is
\* scheme://host followed by, respectively, that stripped path as written,
\* that stripped path with /v2 appended, and /eureka/v2; the result does
\* not end in a slash.
C11_CanonicalPaths ==
    Accepted =>
        LET p == Stripped(GivenPath)
        IN  /\ Folded(p) = <<"/", "e", "u", "r", "e", "k", "a", "/", "v", "2">>
                  => norm.s = SchemeHost \o p
            /\ Folded(p) = <<"/", "e", "u", "r", "e", "k", "a">>
                  => norm.s = SchemeHost \o p \o <<"/", "v", "2">>
            /\ p = <<>>
                  => norm.s = SchemeHost
                                \o <<"/", "e", "u", "r", "e", "k", "a", "/", "v", "2">>
            /\ (Folded(p) \in {<<"/", "e", "u", "r", "e", "k", "a", "/", "v", "2">>,
                                <<"/", "e", "u", "r", "e", "k", "a">>, <<>>})
                  => norm.s[Len(norm.s)] # "/"

\* C11 witness: the path /EUREKA followed by two slashes was normalised, and
\* the result keeps the upper case and gains /v2
C11_Witness ==
    /\ Accepted
    /\ GivenPath = sSlash \o sEurekaUpper \o sSlash \o sSlash
    /\ norm.s = SchemeHost \o sSlash \o sEurekaUpper \o sSlash \o sV2

\* the path is a custom one: something is left of it once its trailing
\* slashes are gone, and that is neither /eureka nor /eureka/v2 in any case
CustomPath ==
    /\ Stripped(GivenPath) # <<>>
    /\ Folded(Stripped(GivenPath)) \notin
           {<<"/", "e", "u", "r", "e", "k", "a", "/", "v", "2">>,
            <<"/", "e", "u", "r", "e", "k", "a">>}

\* C12 as stated: a non-empty path other than /eureka and /eureka/v2 comes
\* out exactly as the caller wrote it
C12_Original ==
    (Accepted /\ CustomPath) => norm.s = SchemeHost \o GivenPath

\* C12: a custom path is kept, less its trailing slashes
\* For an accepted base URL whose path, once its trailing slashes are
\* removed, is non-empty and is not /eureka or /eureka/v2 in any mix of
\* case, the result is scheme://host followed by that stripped path exactly
\* as written: case kept, nothing appended, inner slashes kept.
C12_CustomPathKept ==
    (Accepted /\ CustomPath) => norm.s = SchemeHost \o Stripped(GivenPath)

\* C12 witness: the custom path /V2/eureka/ was normalised: the upper case
\* is kept, no /v2 is appended, the trailing slash is gone
C12_Witness ==
    /\ Accepted
    /\ GivenPath = sSlash \o sV2Upper \o sSlash \o sEureka \o sSlash
    /\ norm.s = SchemeHost \o sSlash \o sV2Upper \o sSlash \o sEureka

\* ======================================================= transport client
StatusOK == 200
StatusCreated == 201
StatusNoContent == 204
StatusNotFound == 404

\* the statuses a server answers with: the four the code tests for, and 500
\* for the statuses no operation accepts
Statuses == {StatusOK, StatusCreated, StatusNoContent, StatusNotFound, 500}

\* what the server behind one URL does: unreachable, or a response with a
\* status and a body that decodes as the expected XML or does not
Unreachable == [reach |-> FALSE, status |-> 0, bodyOK |-> FALSE]
Outcomes ==
    {Unreachable}
        \cup {[reach |-> TRUE, status |-> st, bodyOK |-> FALSE] : st \in Statuses}
        \cup {[reach |-> TRUE, status |-> StatusOK, bodyOK |-> TRUE]}

OpNames == {"RegisterInstance", "Heartbeat", "UnregisterInstance",
            "GetAllApplications", "GetApplication", "GetInstance", "GetByVIP",
            "GetBySecureVIP", "SetStatus", "ClearStatusOverride",
            "UpdateMetadata"}
QueryOps == {"GetAllApplications", "GetApplication", "GetInstance", "GetByVIP",
             "GetBySecureVIP"}

\* c.client.Do(req) for the request of the running operation against
\* baseURLs[i]: a context that is done fails the round trip before anything
\* is sent, an unreachable server fails it, anything else is a response
doRequest(i) ==
    IF ctx # "live"
    THEN [resp |-> Null,
          err |-> <<[msg |-> "context done", url |-> baseURLs[i]]>>]
    ELSE IF ~net[i].reach
    THEN [resp |-> Null, err |-> <<[msg |-> "dial", url |-> baseURLs[i]]>>]
    ELSE [resp |-> [status |-> net[i].status, bodyOK |-> net[i].bodyOK],
          err |-> NoErr]

\* ---- doRequestWithFailOver, one piece per line of the loop
\* for _, baseURL := range c.baseURLs: the element after position i
RangeNextSkipping(i) == i + 2

\* a loop that tries the same URL again after a failure
RangeNextRetrying(i) == i

RangeNext(i) == i + 1

\* if err == nil { return resp, nil }, here also asking for a 2xx status
FailoverReturnsOn2xx(r) ==
    r.err = NoErr /\ r.resp.status \in {StatusOK, StatusCreated, StatusNoContent}

FailoverReturns(r) == r.err = NoErr

\* lastErr kept from the first failure on
WrapFirst(prev, baseURL, err) ==
    IF prev # NoErr THEN prev
    ELSE <<[msg |-> "request to %s failed", url |-> baseURL]>> \o err

\* lastErr = fmt.Errorf("request to %s failed: %w", baseURL, err)
WrapLast(prev, baseURL, err) ==
    <<[msg |-> "request to %s failed", url |-> baseURL]>> \o err

\* ---- what each operation makes of doRequestWithFailOver's return
\* return ..., fmt.Errorf("failed to <what>: %w", err)
Failed(what, err) ==
    [exists |-> FALSE, body |-> "zero",
     err |-> <<[msg |-> "failed to", what |-> what]>> \o err]
\* return ..., fmt.Errorf("unexpected response status <what>: %s", resp.Status)
Unexpected(what, resp) ==
    [exists |-> FALSE, body |-> "zero",
     err |-> <<[msg |-> "unexpected response status", what |-> what,
                status |-> resp.status]>>]
\* return ..., nil
Returned(exists, body) == [exists |-> exists, body |-> body, err |-> NoErr]

\* RegisterInstance accepting 204 only
RegisterInstanceResultStrict(resp, err) ==
    IF err # NoErr THEN Failed("register instance", err)
    ELSE IF resp.status # StatusNoContent
    THEN Unexpected("", resp)
    ELSE Returned(FALSE, "zero")

RegisterInstanceResult(resp, err) ==
    IF err # NoErr THEN Failed("register instance", err)
    ELSE IF resp.status # StatusNoContent /\ resp.status # StatusCreated
    THEN Unexpected("", resp)
    ELSE Returned(FALSE, "zero")

\* Heartbeat treating 404 like any other unexpected status
HeartbeatResultNoNotFound(resp, err) ==
    IF err # NoErr THEN Failed("send heartbeat", err)
    ELSE IF resp.status # StatusOK
    THEN Unexpected("for heartbeat", resp)
    ELSE Returned(TRUE, "zero")

HeartbeatResult(resp, err) ==
    IF err # NoErr THEN Failed("send heartbeat", err)
    ELSE IF resp.status = StatusNotFound THEN Returned(FALSE, "zero")
    ELSE IF resp.status # StatusOK
    THEN Unexpected("for heartbeat", resp)
    ELSE Returned(TRUE, "zero")

\* the five queries: status 200, then xml.NewDecoder(resp.Body).Decode
QueryResult(what, resp, err) ==
    IF err # NoErr THEN Failed(what, err)
    ELSE IF resp.status # StatusOK
    THEN Unexpected(what, resp)
    ELSE IF ~resp.bodyOK
    THEN [exists |-> FALSE, body |-> "zero",
          err |-> <<[msg |-> "failed to decode", what |-> what],
                    [msg |-> "xml"]>>]
    ELSE Returned(FALSE, "decoded")

GetAllApplicationsResult(resp, err) == QueryResult("get all applications", resp, err)
GetApplicationResult(resp, err) == QueryResult("get application", resp, err)
GetInstanceResult(resp, err) == QueryResult("get instance", resp, err)
GetByVIPResult(resp, err) == QueryResult("get by VIP", resp, err)
GetBySecureVIPResult(resp, err) == QueryResult("get by secure VIP", resp, err)

\* the four operations that expect 204 and return only an error
NoContentResult(what, resp, err) ==
    IF err # NoErr THEN Failed(what, err)
    ELSE IF resp.status # StatusNoContent
    THEN Unexpected(what, resp)
    ELSE Returned(FALSE, "zero")

SetStatusResult(resp, err) == NoContentResult("set status", resp, err)
ClearStatusOverrideResult(resp, err) ==
    NoContentResult("clear status override", resp, err)
UpdateMetadataResult(resp, err) == NoContentResult("update metadata", resp, err)
UnregisterInstanceResult(resp, err) ==
    NoContentResult("unregister instance", resp, err)

OpResult(name, resp, err) ==
    CASE name = "RegisterInstance" -> RegisterInstanceResult(resp, err)
      [] name = "Heartbeat" -> HeartbeatResult(resp, err)
      [] name = "UnregisterInstance" -> UnregisterInstanceResult(resp, err)
      [] name = "GetAllApplications" -> GetAllApplicationsResult(resp, err)
      [] name = "GetApplication" -> GetApplicationResult(resp, err)
      [] name = "GetInstance" -> GetInstanceResult(resp, err)
      [] name = "GetByVIP" -> GetByVIPResult(resp, err)
      [] name = "GetBySecureVIP" -> GetBySecureVIPResult(resp, err)
      [] name = "SetStatus" -> SetStatusResult(resp, err)
      [] name = "ClearStatusOverride" -> ClearStatusOverrideResult(resp, err)
      [] name = "UpdateMetadata" -> UpdateMetadataResult(resp, err)

\* ---- UpdateMetadata's argument check and query string
\* the check dropped: an empty map goes on to the request
MetadataEmptyNever(kv) == FALSE

\* len(kv) == 0
MetadataEmpty(kv) == DOMAIN kv = {}

\* for k, v := range kv { query += "&"? + k + "=" + v }, order being the
\* order in which the map happens to be ranged over
RECURSIVE MetadataQuery(_, _)
MetadataQuery(kv, order) ==
    IF order = <<>> THEN <<>>
    ELSE LET front == MetadataQuery(kv, SubSeq(order, 1, Len(order) - 1))
             k == order[Len(order)]
         IN  (IF front # <<>> THEN front \o <<"&">> ELSE front)
                 \o <<k, "=", kv[k]>>

\* ============================================================ facade client
\* Client.Heartbeat ignoring the exists result
FacadeHeartbeatResultIgnoringExists(r, instanceID) ==
    IF r.err # NoErr
    THEN [handle |-> Null, body |-> "zero",
          err |-> <<[msg |-> "failed to", what |-> "send heartbeat"]>> \o r.err]
    ELSE [handle |-> Null, body |-> "zero", err |-> NoErr]

FacadeHeartbeatResult(r, instanceID) ==
    IF r.err # NoErr
    THEN [handle |-> Null, body |-> "zero",
          err |-> <<[msg |-> "failed to", what |-> "send heartbeat"]>> \o r.err]
    ELSE IF ~r.exists
    THEN [handle |-> Null, body |-> "zero",
          err |-> <<[msg |-> "instance %s does not exist", id |-> instanceID]>>]
    ELSE [handle |-> Null, body |-> "zero", err |-> NoErr]

FacadeRegisterInstanceResult(r, instanceID) ==
    IF r.err # NoErr
    THEN [handle |-> Null, body |-> "zero",
          err |-> <<[msg |-> "failed to", what |-> "register instance"]>>
                      \o r.err]
    ELSE [handle |-> [ID |-> instanceID], body |-> "zero", err |-> NoErr]

\* a facade method that logs the transport's error and returns nil
FacadeDelegateResultSwallowing(name, r) ==
    [handle |-> Null, body |-> r.body, err |-> NoErr]

\* every other facade method: wrap the error, pass the value through
FacadeDelegateResult(name, r) ==
    IF r.err # NoErr
    THEN [handle |-> Null, body |-> "zero",
          err |-> <<[msg |-> "failed to", what |-> name]>> \o r.err]
    ELSE [handle |-> Null, body |-> r.body, err |-> NoErr]

FacadeResult(name, r, instanceID) ==
    CASE name = "RegisterInstance" -> FacadeRegisterInstanceResult(r, instanceID)
      [] name = "Heartbeat" -> FacadeHeartbeatResult(r, instanceID)
      [] OTHER -> FacadeDelegateResult(name, r)

\* ------------------------------------------------------- operation inputs
MetaKeys == {"k1", "k2"}
MetaVals == {"v1"}
NoKV == [k \in {} |-> ""]
KVs == UNION {[D -> MetaVals] : D \in SUBSET MetaKeys}
\* the orders in which a map with key set D can be ranged over
RangeOrders(D) ==
    {q \in [1..Cardinality(D) -> D] : \A i, j \in DOMAIN q : i # j => q[i] # q[j]}

\* RegisterInstance's arguments: an IPv4 address and one that has no 4-byte
\* form, and two lease durations
IPs == {[v4 |-> TRUE, text |-> "10.5.0.50"], [v4 |-> FALSE, text |-> "::1"]}
TTLs == {3, 30}

\* ip.To4().String(): To4 gives nil for an address that is not IPv4, and the
\* nil IP prints as "<nil>"
To4String(ip) == IF ip.v4 THEN ip.text ELSE "<nil>"

\* (c *Client) InstanceID()
InstanceID == facade.instanceID

\* the Instance built with both ports enabled
BuildInstanceBothEnabled(c, ip, ttl, useSSL) ==
    [HostName |-> c.host, InstanceID |-> c.instanceID, App |-> c.appID,
     IPAddr |-> To4String(ip), Status |-> "UP",
     DataCenterInfo |-> [Name |-> "MyOwn"],
     LeaseInfo |-> [EvictionDurationInSecs |-> ttl],
     SecureVipAddress |-> c.appID, VipAddress |-> c.appID,
     SecurePort |-> [Value |-> c.port, Enabled |-> TRUE],
     Port |-> [Value |-> c.port, Enabled |-> TRUE]]

\* the eurekaapi.Instance that Client.RegisterInstance builds
BuildInstance(c, ip, ttl, useSSL) ==
    [HostName |-> c.host, InstanceID |-> c.instanceID, App |-> c.appID,
     IPAddr |-> To4String(ip), Status |-> "UP",
     DataCenterInfo |-> [Name |-> "MyOwn"],
     LeaseInfo |-> [EvictionDurationInSecs |-> ttl],
     SecureVipAddress |-> c.appID, VipAddress |-> c.appID,
     SecurePort |-> [Value |-> c.port, Enabled |-> useSSL],
     Port |-> [Value |-> c.port, Enabled |-> ~useSSL]]

\* the request an operation's doRequest closure builds, less the base URL
Request(name, method, path, query, body, kv) ==
    [name |-> name, method |-> method, path |-> path, query |-> query,
     body |-> body, kv |-> kv]

InstancePath(appID, instanceID) == <<"/apps/", appID, "/">> \o instanceID

\* ------------------------------------------------------------- the steps
\* a method is entered with request o: the caller's context and the state of
\* the servers are the environment's choice; the failover loop starts at the
\* first URL.  Each method below is entered by a caller that is not inside
\* another call (pc = "idle").
Begin(o) ==
    /\ op' = o
    /\ \E c \in {"live", "done"} : ctx' = c /\ ctx0' = c
    /\ net' \in [1..Len(baseURLs) -> Outcomes]
    /\ idx' = 1 /\ attempts' = <<>> /\ lastErr' = NoErr
    /\ foRet' = Null /\ ret' = Null /\ fret' = Null
    /\ pc' = "failover"
    /\ UNCHANGED <<urlVars, newVars, cliVars, xmlVars, concVars, mainVars>>

RegisterInstance ==
    /\ pc = "idle" /\ facade # Null
    /\ \E ip \in IPs, ttl \in TTLs, useSSL \in BOOLEAN :
        Begin(Request("RegisterInstance", "POST", <<"/apps/", facade.appID>>,
                      <<>>, BuildInstance(facade, ip, ttl, useSSL), NoKV)
                  @@ [ip |-> ip, ttl |-> ttl, useSSL |-> useSSL])

Heartbeat ==
    /\ pc = "idle" /\ facade # Null
    /\ Begin(Request("Heartbeat", "PUT",
                     InstancePath(facade.appID, facade.instanceID), <<>>, Null, NoKV))

UnregisterInstance ==
    /\ pc = "idle" /\ facade # Null
    /\ Begin(Request("UnregisterInstance", "DELETE",
                     InstancePath(facade.appID, facade.instanceID), <<>>, Null, NoKV))

GetAllApplications ==
    /\ pc = "idle" /\ facade # Null
    /\ Begin(Request("GetAllApplications", "GET", <<"/apps">>, <<>>, Null, NoKV))

GetApplication ==
    /\ pc = "idle" /\ facade # Null
    /\ Begin(Request("GetApplication", "GET", <<"/apps/", facade.appID>>,
                     <<>>, Null, NoKV))

GetInstance ==
    /\ pc = "idle" /\ facade # Null
    /\ Begin(Request("GetInstance", "GET",
                     InstancePath(facade.appID, facade.instanceID), <<>>, Null, NoKV))

GetByVIP ==
    /\ pc = "idle" /\ facade # Null
    /\ Begin(Request("GetByVIP", "GET", <<"/vips/", "vip">>, <<>>, Null, NoKV))

GetBySecureVIP ==
    /\ pc = "idle" /\ facade # Null
    /\ Begin(Request("GetBySecureVIP", "GET", <<"/svips/", "svip">>, <<>>, Null, NoKV))

SetStatus ==
    /\ pc = "idle" /\ facade # Null
    /\ Begin(Request("SetStatus", "PUT",
                     InstancePath(facade.appID, facade.instanceID) \o <<"/status">>,
                     <<"value", "=", "DOWN">>, Null, NoKV))

ClearStatusOverride ==
    /\ pc = "idle" /\ facade # Null
    /\ Begin(Request("ClearStatusOverride", "DELETE",
                     InstancePath(facade.appID, facade.instanceID) \o <<"/status">>,
                     <<"value", "=", "UP">>, Null, NoKV))

\* UpdateMetadata returns before any request when the map is empty
UpdateMetadata ==
    /\ pc = "idle" /\ facade # Null
    /\ \E kv \in KVs : \E order \in RangeOrders(DOMAIN kv) :
        LET o == Request("UpdateMetadata", "PUT",
                         InstancePath(facade.appID, facade.instanceID)
                             \o <<"/metadata">>,
                         MetadataQuery(kv, order), Null, kv)
            early == [exists |-> FALSE, body |-> "zero",
                      err |-> <<[msg |-> "metadata map cannot be empty"]>>]
        IN  IF MetadataEmpty(kv)
            THEN /\ op' = o
                 /\ \E c \in {"live", "done"} : ctx' = c /\ ctx0' = c
                 /\ net' \in [1..Len(baseURLs) -> Outcomes]
                 /\ idx' = 1 /\ attempts' = <<>> /\ lastErr' = NoErr
                 /\ foRet' = Null
                 /\ ret' = early
                 /\ fret' = FacadeResult("UpdateMetadata", early, facade.instanceID)
                 /\ pc' = "done"
                 /\ UNCHANGED <<urlVars, newVars, cliVars, xmlVars, concVars, mainVars>>
            ELSE Begin(o)

\* one iteration of doRequestWithFailOver's loop, and with it the return of
\* the routine and of the operation when the iteration returns or the range
\* is over.  An operation handed neither a response nor an error goes on to
\* resp.Body and the process dies of the nil dereference.
Attempt ==
    /\ pc = "failover"
    /\ IF idx > Len(baseURLs)
       THEN /\ foRet' = [resp |-> Null, err |-> lastErr]
            /\ UNCHANGED <<attempts, idx, lastErr>>
       ELSE LET r == doRequest(idx)
                baseURL == baseURLs[idx]
                le == WrapLast(lastErr, baseURL, r.err)
                nx == RangeNext(idx)
            IN  /\ attempts' = Append(attempts,
                                      [i |-> idx, url |-> baseURL, req |-> op,
                                       err |-> r.err, resp |-> r.resp])
                /\ IF FailoverReturns(r)
                   THEN /\ foRet' = [resp |-> r.resp, err |-> NoErr]
                        /\ UNCHANGED <<idx, lastErr>>
                   ELSE /\ lastErr' = le
                        /\ idx' = nx
                        /\ foRet' = IF nx > Len(baseURLs)
                                    THEN [resp |-> Null, err |-> le] ELSE Null
    /\ pc' = IF foRet' = Null THEN "failover"
             ELSE IF foRet'.resp = Null /\ foRet'.err = NoErr THEN "panic"
             ELSE "done"
    /\ ret' = IF pc' = "done" THEN OpResult(op.name, foRet'.resp, foRet'.err)
              ELSE ret
    /\ fret' = IF pc' = "done"
               THEN FacadeResult(op.name, ret', facade.instanceID) ELSE fret
    /\ UNCHANGED <<op, ctx, ctx0, net, urlVars, newVars, cliVars, xmlVars, concVars, mainVars>>

\* the caller cancels the context, or its deadline passes, during a call
CancelCtx ==
    /\ pc = "failover" /\ ctx = "live"
    /\ ctx' = "done"
    /\ UNCHANGED <<pc, op, ctx0, net, idx, attempts, lastErr, foRet, ret, fret,
                   urlVars, newVars, cliVars, xmlVars, concVars, mainVars>>

\* the method has returned and its locals are gone; the caller goes on to
\* its next call on the same client
Return ==
    /\ pc = "done"
    /\ pc' = "idle" /\ op' = Null /\ ctx' = "live" /\ ctx0' = "live"
    /\ net' = <<>> /\ idx' = 0 /\ attempts' = <<>> /\ lastErr' = NoErr
    /\ foRet' = Null /\ ret' = Null /\ fret' = Null
    /\ UNCHANGED <<urlVars, newVars, cliVars, xmlVars, concVars, mainVars>>

\* ------------------------------------------------------------------- Spec
\* the i-th base URL of a generated configuration: its own host, and the
\* three path shapes in turn
SampleURL(i) ==
    sHTTP \o <<":", "/", "/", "h", ":", ToString(i)>>
          \o (CASE i % 3 = 1 -> <<>>
                [] i % 3 = 2 -> sSlash \o sEureka \o sSlash
                [] OTHER -> <<"/", "x">>)

\* NewClient has been called with up to MaxURLs base URLs; when it returned
\* an error there is no client and nothing can be called
Constructed(maxURLs) ==
    /\ \E c \in {NewClient([i \in 1..n |-> SampleURL(i)], a, h, p).client :
                     n \in 0..maxURLs, a \in AppIDs, h \in Hosts, p \in Ports} :
          IF c = Null
          THEN baseURLs = <<>> /\ facade = Null
          ELSE /\ baseURLs = c.eurekaAPIClient.baseURLs
               /\ facade = [appID |-> c.appID, host |-> c.host, port |-> c.port,
                            instanceID |-> c.instanceID]
    /\ rawURL = <<>> /\ norm = Null /\ renorm = Null
    /\ newArgs = Null /\ newRet = Null
    /\ ParkedCall /\ ParkedWire

Init == Constructed(MaxURLs) /\ ParkedConc /\ ParkedMain

InitLive == Constructed(MaxLiveURLs) /\ ParkedConc /\ ParkedMain

Next ==
    \/ RegisterInstance
    \/ Heartbeat
    \/ UnregisterInstance
    \/ GetAllApplications
    \/ GetApplication
    \/ GetInstance
    \/ GetByVIP
    \/ GetBySecureVIP
    \/ SetStatus
    \/ ClearStatusOverride
    \/ UpdateMetadata
    \/ Attempt
    \/ CancelCtx
    \/ Return

Spec == Init /\ [][Next]_vars

\* the same, with every round trip returning: c.client.Do comes back with a
\* response or an error (the http.Client has a 15 s Timeout), so a loop
\* iteration that can be taken is taken
SpecLive == InitLive /\ [][Next]_vars /\ WF_vars(Attempt)

\* ====================================================== concurrent callers
\* Several goroutines share one client.  A caller is in an operation (the
\* failover loop, about to hand the request for baseURLs[i] to c.client.Do,
\* which reads c.client.Transport) or in WrapTransport, whose three accesses
\* to c.client.Transport are steps of their own: the read of the nil check
\* (line 261), the read of the argument of wrap and the assignment (line
\* 264).  Nothing in the code orders the accesses of different callers.
Callers == 1..NumCallers
Wrappers == {"w1", "w2"}
IdleCaller == [pc |-> "idle", i |-> 0, seen |-> <<>>, wrap |-> ""]

\* an operation is entered; its loop starts at the first URL
StartOp(p) ==
    /\ facade # Null /\ callers[p].pc = "idle"
    /\ callers' = [callers EXCEPT ![p] = [@ EXCEPT !.pc = "do", !.i = 1]]
    /\ UNCHANGED <<transport, urlVars, newVars, cliVars, callVars, xmlVars, mainVars>>

\* c.client.Do(req): the client's Transport is read and does the round
\* trip; on an error the loop goes on to the next URL, if there is one
Do(p) ==
    /\ callers[p].pc = "do"
    /\ \E ok \in BOOLEAN :
          callers' = [callers EXCEPT ![p] =
              IF ok \/ callers[p].i >= Len(baseURLs)
              THEN [@ EXCEPT !.pc = "idle", !.i = 0, !.seen = transport]
              ELSE [@ EXCEPT !.i = @ + 1, !.seen = transport]]
    /\ UNCHANGED <<transport, urlVars, newVars, cliVars, callVars, xmlVars, mainVars>>

\* WrapTransport(wrap) with a non-nil wrap is entered
StartWrap(p) ==
    /\ facade # Null /\ callers[p].pc = "idle"
    /\ Len(transport)
          + Cardinality({q \in Callers : callers[q].pc \in {"check", "read", "write"}})
          < MaxWraps
    /\ \E w \in Wrappers :
          callers' = [callers EXCEPT ![p] = [@ EXCEPT !.pc = "check", !.wrap = w]]
    /\ UNCHANGED <<transport, urlVars, newVars, cliVars, callVars, xmlVars, mainVars>>

\* if c.client == nil || c.client.Transport == nil: the constructor set
\* both, so the call goes on
WrapCheck(p) ==
    /\ callers[p].pc = "check"
    /\ callers' = [callers EXCEPT ![p] = [@ EXCEPT !.pc = "read", !.seen = transport]]
    /\ UNCHANGED <<transport, urlVars, newVars, cliVars, callVars, xmlVars, mainVars>>

\* wrap(c.client.Transport): the argument is read
WrapRead(p) ==
    /\ callers[p].pc = "read"
    /\ callers' = [callers EXCEPT ![p] = [@ EXCEPT !.pc = "write", !.seen = transport]]
    /\ UNCHANGED <<transport, urlVars, newVars, cliVars, callVars, xmlVars, mainVars>>

\* c.client.Transport = ...: the wrapper around what was read is stored
WrapWrite(p) ==
    /\ callers[p].pc = "write"
    /\ transport' = Append(callers[p].seen, callers[p].wrap)
    /\ callers' = [callers EXCEPT ![p] = [@ EXCEPT !.pc = "idle", !.wrap = ""]]
    /\ UNCHANGED <<urlVars, newVars, cliVars, callVars, xmlVars, mainVars>>

InitConc ==
    /\ Constructed(MaxLiveURLs) /\ ParkedMain
    /\ transport = <<>>
    /\ callers = [p \in Callers |-> IdleCaller]

NextConc ==
    \E p \in Callers :
        \/ StartOp(p)
        \/ Do(p)
        \/ StartWrap(p)
        \/ WrapCheck(p)
        \/ WrapRead(p)
        \/ WrapWrite(p)

SpecConc == InitConc /\ [][NextConc]_vars

\* ================================================== example client process
\* cmd/client.go: main builds a client for one Eureka URL, registers, starts
\* the heartbeat goroutine and the goroutine creating the HTTP server, and
\* after the signal unregisters.  A facade call made by the process is an
\* entry of calls: its name, the context it was given (via) and whether that
\* context was live or done when the call was issued, what set it off, and
\* its result ("pending" while the call is under way).
\* the URL in EUREKA_CLIENT_SERVICE_URL_DEFAULTZONE: a valid one, and one
\* without a scheme
EurekaURLs == {SampleURL(1), <<"h">> \o sSlash \o sEureka}

\* a facade operation against the single configured server: what it returns
\* when the round trip meets outcome o under a context in state c
OneShot(name, o, c) ==
    LET r == IF c # "live"
             THEN [resp |-> Null,
                   err |-> <<[msg |-> "context done", url |-> baseURLs[1]]>>]
             ELSE IF ~o.reach
             THEN [resp |-> Null, err |-> <<[msg |-> "dial", url |-> baseURLs[1]]>>]
             ELSE [resp |-> [status |-> o.status, bodyOK |-> o.bodyOK],
                   err |-> NoErr]
        fo == IF FailoverReturns(r) THEN r
              ELSE [resp |-> Null, err |-> WrapLast(NoErr, baseURLs[1], r.err)]
    IN  FacadeResult(name, OpResult(name, fo.resp, fo.err), facade.instanceID)

\* what the process makes of a facade result: nil, the not-found error of
\* Heartbeat, or another error
Verdict(fr) ==
    IF fr.err = NoErr THEN "ok"
    ELSE IF fr.err[1].msg = "instance %s does not exist" THEN "notfound"
    ELSE "failed"

Call(name, via, state, trigger, res) ==
    [name |-> name, via |-> via, state |-> state, trigger |-> trigger, res |-> res]

Heartbeats == SelectSeq(calls, LAMBDA c : c.name = "Heartbeat")

\* wg.Wait() returning although the heartbeat goroutine is still running
WaitGroupDoneServerOnly == spc = "returned"

\* wg.Wait() returns: both goroutines have called wg.Done()
WaitGroupDone == hpc = "returned" /\ spc = "returned"

\* ---- main
\* line 37: lib.NewClient([]string{cfg.EurekaURL}, ...), log.Fatalf on error
MainNewClient ==
    /\ mpc = "start"
    /\ \E c \in {NewClient(<<u>>, a, h, p).client :
                     u \in EurekaURLs, a \in AppIDs, h \in Hosts, p \in Ports} :
          IF c = Null
          THEN mpc' = "fatal" /\ UNCHANGED cliVars
          ELSE /\ baseURLs' = c.eurekaAPIClient.baseURLs
               /\ facade' = [appID |-> c.appID, host |-> c.host, port |-> c.port,
                             instanceID |-> c.instanceID]
               /\ mpc' = "register"
    /\ UNCHANGED <<hpc, spc, sigCtx, tick, calls, shutdownCtx,
                   urlVars, newVars, callVars, xmlVars, concVars>>

\* line 44: RegisterInstance(context.Background(), ip, ttl, false),
\* log.Fatalf on error
MainRegister ==
    /\ mpc = "register"
    /\ \E o \in Outcomes :
          LET v == Verdict(OneShot("RegisterInstance", o, "live"))
          IN  /\ calls' = Append(calls, Call("RegisterInstance", "background",
                                             "live", "main", v))
              /\ mpc' = IF v = "ok" THEN "spawn" ELSE "fatal"
    /\ UNCHANGED <<hpc, spc, sigCtx, tick, shutdownCtx,
                   urlVars, newVars, cliVars, callVars, xmlVars, concVars>>

\* lines 54-64: the two goroutines are started
MainSpawn ==
    /\ mpc = "spawn"
    /\ mpc' = "wait1" /\ hpc' = "ready" /\ spc' = "ready"
    /\ UNCHANGED <<sigCtx, tick, calls, shutdownCtx,
                   urlVars, newVars, cliVars, callVars, xmlVars, concVars>>

\* line 66: wg.Wait()
MainWait1 ==
    /\ mpc = "wait1" /\ WaitGroupDone
    /\ mpc' = "waitSignal"
    /\ UNCHANGED <<hpc, spc, sigCtx, tick, calls, shutdownCtx,
                   urlVars, newVars, cliVars, callVars, xmlVars, concVars>>

\* lines 68-72: <-ctx.Done(), then context.WithTimeout(Background, 5s)
MainSignalled ==
    /\ mpc = "waitSignal" /\ sigCtx = "done"
    /\ mpc' = "wait2" /\ shutdownCtx' = "live"
    /\ UNCHANGED <<hpc, spc, sigCtx, tick, calls,
                   urlVars, newVars, cliVars, callVars, xmlVars, concVars>>

\* line 75: wg.Wait()
MainWait2 ==
    /\ mpc = "wait2" /\ WaitGroupDone
    /\ mpc' = "unregister"
    /\ UNCHANGED <<hpc, spc, sigCtx, tick, calls, shutdownCtx,
                   urlVars, newVars, cliVars, callVars, xmlVars, concVars>>

\* line 77: eurekaClient.UnregisterInstance(shutdownCtx); an error is logged
MainUnregister ==
    /\ mpc = "unregister"
    /\ \E o \in Outcomes :
          calls' = Append(calls,
                          Call("UnregisterInstance", "shutdownCtx",
                               IF shutdownCtx = "live" THEN "live" ELSE "done", "main",
                               Verdict(OneShot("UnregisterInstance", o, shutdownCtx))))
    /\ mpc' = "shutdownServer"
    /\ UNCHANGED <<hpc, spc, sigCtx, tick, shutdownCtx,
                   urlVars, newVars, cliVars, callVars, xmlVars, concVars>>

\* lines 83-87: server.Shutdown(shutdownCtx), main returns
MainExit ==
    /\ mpc = "shutdownServer"
    /\ mpc' = "exit"
    /\ UNCHANGED <<hpc, spc, sigCtx, tick, calls, shutdownCtx,
                   urlVars, newVars, cliVars, callVars, xmlVars, concVars>>

\* ---- the goroutine of line 61: internal.NewServer returns a server value
ServerCreated ==
    /\ spc = "ready"
    /\ spc' = "returned"
    /\ UNCHANGED <<mpc, hpc, sigCtx, tick, calls, shutdownCtx,
                   urlVars, newVars, cliVars, callVars, xmlVars, concVars>>

\* ---- periodicallySendHeartbeat
\* send(): hbCtx is derived from ctx, so it is done when ctx is
Send(trigger) ==
    calls' = Append(calls, Call("Heartbeat", "hbCtx", sigCtx, trigger, "pending"))

\* lines 91-107: the ticker is created and send() is called at once
HeartbeatFirst ==
    /\ hpc = "ready"
    /\ Send("immediate")
    /\ hpc' = "sending"
    /\ UNCHANGED <<mpc, spc, sigCtx, tick, shutdownCtx,
                   urlVars, newVars, cliVars, callVars, xmlVars, concVars>>

\* a loop that gives up when a heartbeat fails
HeartbeatReturnsStoppingOnError ==
    /\ hpc = "sending"
    /\ \E o \in Outcomes, c \in {"live", "done"} :
          /\ (sigCtx = "done" => c = "done")
          /\ calls' = [calls EXCEPT ![Len(calls)].res =
                           Verdict(OneShot("Heartbeat", o, c))]
          /\ hpc' = IF Verdict(OneShot("Heartbeat", o, c)) = "ok"
                    THEN "select" ELSE "returned"
    /\ UNCHANGED <<mpc, spc, sigCtx, tick, shutdownCtx,
                   urlVars, newVars, cliVars, callVars, xmlVars, concVars>>

\* lines 100-104: client.Heartbeat returns (hbCtx may have run out after
\* interval/2, or ctx been cancelled, meanwhile); the result is logged and
\* send returns to the loop either way
HeartbeatReturns ==
    /\ hpc = "sending"
    /\ \E o \in Outcomes, c \in {"live", "done"} :
          /\ (sigCtx = "done" => c = "done")
          /\ calls' = [calls EXCEPT ![Len(calls)].res =
                           Verdict(OneShot("Heartbeat", o, c))]
    /\ hpc' = "select"
    /\ UNCHANGED <<mpc, spc, sigCtx, tick, shutdownCtx,
                   urlVars, newVars, cliVars, callVars, xmlVars, concVars>>

\* line 114: case <-ticker.C: send()
SelectTick ==
    /\ hpc = "select" /\ tick
    /\ tick' = FALSE
    /\ Send("tick")
    /\ hpc' = "sending"
    /\ UNCHANGED <<mpc, spc, sigCtx, shutdownCtx,
                   urlVars, newVars, cliVars, callVars, xmlVars, concVars>>

\* line 111: case <-ctx.Done(): return (ticker.Stop and wg.Done deferred)
SelectDone ==
    /\ hpc = "select" /\ sigCtx = "done"
    /\ hpc' = "returned" /\ tick' = FALSE
    /\ UNCHANGED <<mpc, spc, sigCtx, calls, shutdownCtx,
                   urlVars, newVars, cliVars, callVars, xmlVars, concVars>>

\* ---- the environment
\* the ticker puts a tick in its channel (a tick finding one there is lost)
Tick ==
    /\ hpc \in {"sending", "select"} /\ ~tick
    /\ Len(Heartbeats) < MaxBeats
    /\ tick' = TRUE
    /\ UNCHANGED <<mpc, hpc, spc, sigCtx, calls, shutdownCtx,
                   urlVars, newVars, cliVars, callVars, xmlVars, concVars>>

\* SIGINT or SIGTERM arrives: ctx is cancelled
Signal ==
    /\ sigCtx = "live" /\ mpc \notin {"fatal", "exit"}
    /\ sigCtx' = "done"
    /\ UNCHANGED <<mpc, hpc, spc, tick, calls, shutdownCtx,
                   urlVars, newVars, cliVars, callVars, xmlVars, concVars>>

\* the 5 s of shutdownCtx pass
ShutdownDeadline ==
    /\ shutdownCtx = "live" /\ mpc # "exit"
    /\ shutdownCtx' = "expired"
    /\ UNCHANGED <<mpc, hpc, spc, sigCtx, tick, calls,
                   urlVars, newVars, cliVars, callVars, xmlVars, concVars>>

InitMain ==
    /\ mpc = "start" /\ hpc = "none" /\ spc = "none"
    /\ sigCtx = "live" /\ tick = FALSE /\ calls = <<>> /\ shutdownCtx = "none"
    /\ baseURLs = <<>> /\ facade = Null
    /\ rawURL = <<>> /\ norm = Null /\ renorm = Null
    /\ newArgs = Null /\ newRet = Null
    /\ ParkedCall /\ ParkedWire /\ ParkedConc

NextMain ==
    \/ MainNewClient
    \/ MainRegister
    \/ MainSpawn
    \/ MainWait1
    \/ MainSignalled
    \/ MainWait2
    \/ MainUnregister
    \/ MainExit
    \/ ServerCreated
    \/ HeartbeatFirst
    \/ HeartbeatReturns
    \/ SelectTick
    \/ SelectDone
    \/ Tick
    \/ Signal
    \/ ShutdownDeadline

\* the goroutines are scheduled, a call returns, a select with a ready case
\* takes one, and select, choosing at random among the cases that are
\* ready, does not pass over a ready ctx.Done() for ever
SpecMain ==
    /\ InitMain /\ [][NextMain]_vars
    /\ WF_vars(HeartbeatFirst) /\ WF_vars(HeartbeatReturns) /\ SF_vars(SelectDone)
    /\ WF_vars(SelectTick \/ SelectDone)

\* ============================================================== wire model
\* An XML document is the tree encoding/xml writes and reads: an element is
\* [name, attrs, text, kids], attrs a sequence of <<name, value>> pairs, text
\* the character data, kids the child elements in document order.
Element(name, attrs, text, kids) ==
    [name |-> name, attrs |-> attrs, text |-> text, kids |-> kids]

\* strconv.FormatBool / ParseBool, strconv.Itoa / ParseInt on the numerals
\* of the model; empty character data leaves an integer at 0
BoolText(b) == IF b THEN "true" ELSE "false"
ParseBool(t) == t \in {"true", "1", "t", "T", "TRUE", "True"}
Numbers == {0, 3, 30, 8080, 8443}
ParseInt(t) == IF t = "" THEN 0 ELSE CHOOSE n \in Numbers : ToString(n) = t

\* ---- xml.Marshal, one operator per kind of field
\* `xml:"tag"` on a string: always written
StringField(tag, v) == <<Element(tag, <<>>, v, <<>>)>>
\* `xml:"tag,omitempty"` on a string: left out when empty
OmitEmptyString(tag, v) == IF v = "" THEN <<>> ELSE StringField(tag, v)

\* a *Port left out when it is disabled as well as when it is nil
PortFieldOmitDisabled(tag, p) ==
    IF p = Null \/ ~p.Enabled THEN <<>>
    ELSE <<Element(tag, <<<<"enabled", BoolText(p.Enabled)>>>>,
                   ToString(p.Value), <<>>)>>

\* `xml:"tag,omitempty"` on a *Port: left out when nil; Enabled is the
\* attribute "enabled", Value the character data
PortField(tag, p) ==
    IF p = Null THEN <<>>
    ELSE <<Element(tag, <<<<"enabled", BoolText(p.Enabled)>>>>,
                   ToString(p.Value), <<>>)>>

\* DataCenter: XMLName dataCenterInfo, Name as <name>
DataCenterField(dc) ==
    <<Element("dataCenterInfo", <<>>, "", StringField("name", dc.Name))>>

\* *LeaseInfo, omitempty: left out when nil; its uint field is omitempty too
LeaseInfoField(l) ==
    IF l = Null THEN <<>>
    ELSE <<Element("leaseInfo", <<>>, "",
                   IF l.EvictionDurationInSecs = 0 THEN <<>>
                   ELSE StringField("evictionDurationInSecs",
                                    ToString(l.EvictionDurationInSecs)))>>

\* *Metadata, omitempty: Entries is `xml:",any"`, each MetaEntry an element
\* named by its XMLName with Value as character data
MetadataField(m) ==
    IF m = Null THEN <<>>
    ELSE <<Element("metadata", <<>>, "",
                   [i \in 1..Len(m.Entries) |->
                       Element(m.Entries[i].XMLName, <<>>, m.Entries[i].Value, <<>>)])>>

Marshal(v) ==
    Element("instance", <<>>, "",
        StringField("hostName", v.HostName)
        \o StringField("app", v.App)
        \o StringField("ipAddr", v.IPAddr)
        \o OmitEmptyString("vipAddress", v.VipAddress)
        \o OmitEmptyString("secureVipAddress", v.SecureVipAddress)
        \o StringField("status", v.Status)
        \o PortField("port", v.Port)
        \o PortField("securePort", v.SecurePort)
        \o OmitEmptyString("homePageUrl", v.HomePageURL)
        \o OmitEmptyString("statusPageUrl", v.StatusPageURL)
        \o OmitEmptyString("healthCheckUrl", v.HealthCheckURL)
        \o DataCenterField(v.DataCenterInfo)
        \o LeaseInfoField(v.LeaseInfo)
        \o MetadataField(v.Metadata)
        \o OmitEmptyString("instanceId", v.InstanceID)
        \o OmitEmptyString("overriddenstatus", v.OverriddenStatus)
        \o OmitEmptyString("isCoordinatingDiscoveryServer", v.IsCoordinatingDiscovery)
        \o OmitEmptyString("lastUpdatedTimestamp", v.LastUpdatedTimestamp)
        \o OmitEmptyString("lastDirtyTimestamp", v.LastDirtyTimestamp)
        \o OmitEmptyString("actionType", v.ActionType)
        \o OmitEmptyString("countryId", v.CountryID))

\* ---- xml.Unmarshal
\* the child elements of e named tag, in document order
Kids(e, tag) == SelectSeq(e.kids, LAMBDA k : k.name = tag)
\* the value of attribute a of e, "" when e has none
Attr(e, a) ==
    IF \E i \in 1..Len(e.attrs) : e.attrs[i][1] = a
    THEN e.attrs[CHOOSE i \in 1..Len(e.attrs) : e.attrs[i][1] = a][2]
    ELSE ""
\* a field that is set from each matching element in turn keeps the last
Last(q) == q[Len(q)]

ReadString(e, tag) == IF Kids(e, tag) = <<>> THEN "" ELSE Last(Kids(e, tag)).text
ReadPort(e, tag) ==
    IF Kids(e, tag) = <<>> THEN Null
    ELSE [Value |-> ParseInt(Last(Kids(e, tag)).text),
          Enabled |-> ParseBool(Attr(Last(Kids(e, tag)), "enabled"))]
ReadDataCenter(e) ==
    IF Kids(e, "dataCenterInfo") = <<>> THEN [Name |-> ""]
    ELSE [Name |-> ReadString(Last(Kids(e, "dataCenterInfo")), "name")]
ReadLeaseInfo(e) ==
    IF Kids(e, "leaseInfo") = <<>> THEN Null
    ELSE [EvictionDurationInSecs |->
              ParseInt(ReadString(Last(Kids(e, "leaseInfo")), "evictionDurationInSecs"))]
ReadMetadata(e) ==
    IF Kids(e, "metadata") = <<>> THEN Null
    ELSE LET m == Last(Kids(e, "metadata"))
         IN  [Entries |-> [i \in 1..Len(m.kids) |->
                              [XMLName |-> m.kids[i].name, Value |-> m.kids[i].text]]]

Unmarshal(e) ==
    [HostName |-> ReadString(e, "hostName"),
     App |-> ReadString(e, "app"),
     IPAddr |-> ReadString(e, "ipAddr"),
     VipAddress |-> ReadString(e, "vipAddress"),
     SecureVipAddress |-> ReadString(e, "secureVipAddress"),
     Status |-> ReadString(e, "status"),
     Port |-> ReadPort(e, "port"),
     SecurePort |-> ReadPort(e, "securePort"),
     HomePageURL |-> ReadString(e, "homePageUrl"),
     StatusPageURL |-> ReadString(e, "statusPageUrl"),
     HealthCheckURL |-> ReadString(e, "healthCheckUrl"),
     DataCenterInfo |-> ReadDataCenter(e),
     LeaseInfo |-> ReadLeaseInfo(e),
     Metadata |-> ReadMetadata(e),
     InstanceID |-> ReadString(e, "instanceId"),
     OverriddenStatus |-> ReadString(e, "overriddenstatus"),
     IsCoordinatingDiscovery |-> ReadString(e, "isCoordinatingDiscoveryServer"),
     LastUpdatedTimestamp |-> ReadString(e, "lastUpdatedTimestamp"),
     LastDirtyTimestamp |-> ReadString(e, "lastDirtyTimestamp"),
     ActionType |-> ReadString(e, "actionType"),
     CountryID |-> ReadString(e, "countryId")]

\* ---- SpecXML
\* generated Instances: ports absent, disabled and enabled, with value 0 and
\* not; lease info absent, zero and set; metadata absent, empty and with
\* entries, repeated keys and empty values included
PortValues == {Null} \cup [Value : {0, 8080}, Enabled : BOOLEAN]
LeaseValues == {Null} \cup [EvictionDurationInSecs : {0, 3}]
MetaEntries == [XMLName : {"k1", "k2"}, Value : {"", "v1"}]
MetadataValues == {Null} \cup {[Entries |-> q] : q \in SeqsUpTo(MetaEntries, MaxEntries)}

Instances ==
    [HostName : {"", "10.5.0.50"}, App : {"my-app"}, IPAddr : {"10.5.0.50"},
     VipAddress : {"", "my-app"}, SecureVipAddress : {""},
     Status : {"UP"}, Port : PortValues, SecurePort : PortValues,
     HomePageURL : {""}, StatusPageURL : {""}, HealthCheckURL : {""},
     DataCenterInfo : [Name : {"MyOwn"}], LeaseInfo : LeaseValues,
     Metadata : MetadataValues, InstanceID : {"", "10.5.0.50:my-app:8080"},
     OverriddenStatus : {""}, IsCoordinatingDiscovery : {""},
     LastUpdatedTimestamp : {""}, LastDirtyTimestamp : {""},
     ActionType : {""}, CountryID : {""}]

Encode ==
    /\ inst # Null /\ wire = Null
    /\ wire' = Marshal(inst)
    /\ UNCHANGED <<inst, decoded, urlVars, newVars, cliVars, callVars,
                   concVars, mainVars>>

Decode ==
    /\ wire # Null /\ decoded = Null
    /\ decoded' = Unmarshal(wire)
    /\ UNCHANGED <<inst, wire, urlVars, newVars, cliVars, callVars,
                   concVars, mainVars>>

InitXML ==
    /\ inst \in Instances
    /\ wire = Null /\ decoded = Null
    /\ rawURL = <<>> /\ norm = Null /\ renorm = Null
    /\ newArgs = Null /\ newRet = Null
    /\ baseURLs = <<>> /\ facade = Null
    /\ ParkedCall /\ ParkedConc /\ ParkedMain

NextXML == Encode \/ Decode

SpecXML == InitXML /\ [][NextXML]_vars

\* ================================================================ claims
NumURLs == Len(baseURLs)
LastAttempt == attempts[Len(attempts)]
\* the operation has returned after a round trip that gave a response
ReturnedResponse ==
    pc = "done" /\ attempts # <<>> /\ LastAttempt.err = NoErr
\* the operation has returned after its last round trip failed
ReturnedFailure ==
    pc = "done" /\ attempts # <<>> /\ LastAttempt.err # NoErr
\* the positions whose server can be reached
Reachable == {i \in 1..NumURLs : net[i].reach}
FirstReachable == CHOOSE i \in Reachable : \A j \in Reachable : i <= j

\* the success codes of the protocol table
ProtocolSuccess(name) ==
    CASE name = "RegisterInstance" -> {201, 204}
      [] name = "Heartbeat" -> {200}
      [] name \in QueryOps -> {200}
      [] OTHER -> {204}

\* C1: the URLs are tried in configured order up to the first round trip
\* that returns without error
\* At every moment of a call the k-th request made is the one to the k-th
\* configured URL, every request but the last has failed, and no more than
\* one request per URL is made.  When the call has returned with the context
\* still live and some server reachable, the requests made are exactly those
\* to the URLs up to the first reachable one, and the result is what the
\* operation makes of that server's response.
C1_FailoverOrder ==
    /\ Len(attempts) <= NumURLs
    /\ \A k \in 1..Len(attempts) :
          /\ attempts[k].i = k
          /\ attempts[k].url = baseURLs[k]
          /\ (k < Len(attempts) => attempts[k].err # NoErr)
    /\ (pc = "done" /\ attempts # <<>> /\ ctx = "live" /\ Reachable # {}) =>
          /\ Len(attempts) = FirstReachable
          /\ LastAttempt.err = NoErr
          /\ LastAttempt.resp.status = net[FirstReachable].status
          /\ ret = OpResult(op.name, LastAttempt.resp, NoErr)

\* C1 witness: the first server was unreachable, the second answered, a
\* third one would have answered too, and the call returned after two
\* requests
C1_Witness ==
    /\ pc = "done" /\ ctx = "live" /\ NumURLs >= 3
    /\ ~net[1].reach /\ net[2].reach /\ net[3].reach
    /\ Len(attempts) = 2 /\ ret.err = NoErr

\* C2 as stated: every status outside the operation's success codes gives a
\* protocol error built from the response, and no later URL is requested
C2_Original ==
    (ReturnedResponse
        /\ LastAttempt.resp.status \notin ProtocolSuccess(op.name)) =>
        /\ ret.err # NoErr
        /\ ret.err[1].msg = "unexpected response status"
        /\ ret.err[1].status = LastAttempt.resp.status

\* C2: a status the operation does not accept is not retried elsewhere
\* Once a server has answered, the call has returned: the failover loop never
\* goes on to a later URL after a response, whatever its status.  If the
\* status is outside the operation's success codes, and is not the 404 that
\* Heartbeat reports as a not-found result, the operation returns an error
\* built from that response alone (it names the status and wraps no
\* transport error).
C2_StatusNotRetried ==
    /\ (attempts # <<>> /\ LastAttempt.err = NoErr) => pc = "done"
    /\ (ReturnedResponse
          /\ LastAttempt.resp.status \notin ProtocolSuccess(op.name)
          /\ ~(op.name = "Heartbeat" /\ LastAttempt.resp.status = StatusNotFound)) =>
          /\ ret.err # NoErr
          /\ Len(ret.err) = 1
          /\ ret.err[1].msg = "unexpected response status"
          /\ ret.err[1].status = LastAttempt.resp.status

\* C2 witness: the first server answered 500, the next one would have
\* answered with a success code, and the call returned after one request
C2_Witness ==
    /\ pc = "done" /\ NumURLs >= 2 /\ Len(attempts) = 1
    /\ net[1].reach /\ net[1].status = 500
    /\ net[2].reach /\ net[2].status \in ProtocolSuccess(op.name) /\ net[2].bodyOK
    /\ ret.err # NoErr

\* C3: when every URL fails, the error is the last URL's, wrapped
\* An operation that returns after a failed round trip has made a request to
\* every configured URL, every one of them failed, and it returns no value
\* and an error that wraps, under the operation's own message, "request to
\* <last configured URL> failed" around the error of that last round trip.
C3_LastErrorReturned ==
    ReturnedFailure =>
        /\ Len(attempts) = NumURLs
        /\ \A k \in 1..NumURLs : attempts[k].err # NoErr
        /\ ret.exists = FALSE /\ ret.body = "zero"
        /\ Len(ret.err) >= 2
        /\ ret.err[1].msg = "failed to"
        /\ ret.err[2] = [msg |-> "request to %s failed", url |-> baseURLs[NumURLs]]
        /\ SubSeq(ret.err, 3, Len(ret.err)) = attempts[NumURLs].err
        /\ \A k \in 1..(NumURLs - 1) :
              SubSeq(ret.err, 3, Len(ret.err)) # attempts[k].err

\* C3 witness: three unreachable servers, a live context, three requests,
\* and an error returned
C3_Witness ==
    /\ pc = "done" /\ ctx = "live" /\ NumURLs >= 3
    /\ Reachable = {}
    /\ Len(attempts) = NumURLs /\ ret.err # NoErr

\* C4 as stated: with the context already done at the start of the call, the
\* operation fails and at most the first configured URL is tried
C4_NoFailoverWhenCancelled ==
    (pc = "done" /\ ctx0 = "done"
        /\ ~(op.name = "UpdateMetadata" /\ DOMAIN op.kv = {})) =>
        /\ ret.err # NoErr
        /\ Len(attempts) <= 1

\* C5: transport Heartbeat maps 200, 404 and the other statuses
\* When transport Heartbeat returns after a response, status 200 gives
\* (true, nil), status 404 gives (false, nil) and every other status gives
\* (false, error); it never returns true together with an error.
C5_HeartbeatMapping ==
    (pc = "done" /\ op.name = "Heartbeat") =>
        /\ ~(ret.exists /\ ret.err # NoErr)
        /\ (LastAttempt.err = NoErr) =>
              CASE LastAttempt.resp.status = 200 ->
                     ret.exists /\ ret.err = NoErr
                [] LastAttempt.resp.status = 404 ->
                     ~ret.exists /\ ret.err = NoErr
                [] OTHER -> ~ret.exists /\ ret.err # NoErr

\* C5 witness: Heartbeat returned after a server answered 404
C5_Witness ==
    /\ pc = "done" /\ op.name = "Heartbeat"
    /\ LastAttempt.err = NoErr /\ LastAttempt.resp.status = 404
    /\ ret.err = NoErr

\* the error facade Heartbeat returns for an instance the server does not know
InstanceNotFound ==
    <<[msg |-> "instance %s does not exist", id |-> facade.instanceID]>>

\* C6: facade Heartbeat succeeds only on 200 and tells 404 from failure
\* Facade Heartbeat returns nil exactly when a server was reached and answered
\* 200.  On 404 it returns the error "instance <bound instance ID> does not
\* exist"; on a transport failure or any other status it returns an error
\* that starts with "failed to send heartbeat" and is not that one.
C6_FacadeHeartbeat ==
    (pc = "done" /\ op.name = "Heartbeat") =>
        /\ (fret.err = NoErr) <=>
              (LastAttempt.err = NoErr /\ LastAttempt.resp.status = 200)
        /\ (LastAttempt.err = NoErr /\ LastAttempt.resp.status = 404) =>
              fret.err = InstanceNotFound
        /\ (LastAttempt.err # NoErr
              \/ LastAttempt.resp.status \notin {200, 404}) =>
              /\ fret.err # NoErr
              /\ fret.err # InstanceNotFound
              /\ fret.err[1] = [msg |-> "failed to", what |-> "send heartbeat"]

\* C6 witness: facade Heartbeat returned the not-found error after failing
\* over from an unreachable server to one that answered 404
C6_Witness ==
    /\ pc = "done" /\ op.name = "Heartbeat" /\ Len(attempts) = 2
    /\ LastAttempt.err = NoErr /\ LastAttempt.resp.status = 404
    /\ fret.err = InstanceNotFound

\* C7: every operation but Heartbeat succeeds exactly on its success codes
\* When an operation other than Heartbeat returns after a response, it
\* returns no error exactly when the status is one of the operation's success
\* codes in the protocol table and, for the five queries, the body decodes.
C7_SuccessCodes ==
    (ReturnedResponse /\ op.name # "Heartbeat") =>
        ((ret.err = NoErr) <=>
            /\ LastAttempt.resp.status \in ProtocolSuccess(op.name)
            /\ (op.name \in QueryOps => LastAttempt.resp.bodyOK))

\* C7 witness: RegisterInstance returned success on status 201
C7_Witness ==
    /\ ReturnedResponse /\ op.name = "RegisterInstance"
    /\ LastAttempt.resp.status = 201 /\ ret.err = NoErr

\* how often the text key=value occurs in a query string
PairCount(query, k, v) ==
    Cardinality({j \in 1..(Len(query) - 2) :
                    query[j] = k /\ query[j + 1] = "=" /\ query[j + 2] = v})

BoundID == <<facade.host, ":", facade.appID, ":", ToString(facade.port)>>
\* the operations that address one instance
InstanceOps == {"Heartbeat", "UnregisterInstance", "GetInstance", "SetStatus",
                "ClearStatusOverride", "UpdateMetadata"}
\* in every state: the getter, the request of the running operation, every
\* request sent for it, and the handle returned carry the bound identity
IdentityCarried ==
    (facade # Null) =>
    /\ InstanceID = BoundID
    /\ (pc # "idle") =>
          /\ \A k \in 1..Len(attempts) : attempts[k].req = op
          /\ (op.name = "RegisterInstance") =>
                /\ op.path = <<"/apps/", facade.appID>>
                /\ op.body.InstanceID = BoundID
                /\ op.body.App = facade.appID /\ op.body.HostName = facade.host
          /\ (op.name \in InstanceOps) =>
                SubSeq(op.path, 1, 8) = <<"/apps/", facade.appID, "/">> \o BoundID
    /\ (pc = "done" /\ op.name = "RegisterInstance") =>
          IF fret.err = NoErr THEN fret.handle = [ID |-> BoundID]
          ELSE fret.handle = Null

\* C13: the instance ID is host:appID:port, fixed at construction
\* No step of any operation, successful or failed, changes the facade's
\* identity; InstanceID() is always host:appID:port of that identity; the
\* Instance that RegisterInstance sends and the handle it returns carry it;
\* and Heartbeat, UnregisterInstance, GetInstance, SetStatus,
\* ClearStatusOverride and UpdateMetadata send every request to
\* /apps/<appID>/<that instance ID>.
C13_InstanceIDFixed ==
    /\ []IdentityCarried
    /\ [][facade' = facade]_vars

\* C13 witness: RegisterInstance failed over from an unreachable server,
\* succeeded, and returned a handle with the ID 10.5.0.50:my-app:8080
C13_Witness ==
    /\ pc = "done" /\ op.name = "RegisterInstance" /\ Len(attempts) = 2
    /\ fret.err = NoErr
    /\ fret.handle.ID = <<"10.5.0.50", ":", "my-app", ":", "8080">>
    /\ attempts[2].req.body.InstanceID = fret.handle.ID

\* C14: exactly one of the two ports of a registered Instance is enabled
\* In every request RegisterInstance(ip, ttl, useSSL) sends, the Instance has
\* port.enabled = not useSSL and securePort.enabled = useSSL, both ports
\* carry the port bound at construction, the status is UP, the lease
\* eviction duration is ttl, and vipAddress and secureVipAddress are the
\* bound appID.
C14_RegisteredInstance ==
    (pc # "idle" /\ op.name = "RegisterInstance") =>
        \A k \in 1..Len(attempts) :
            LET sent == attempts[k].req.body
            IN  /\ sent.Port.Enabled = ~op.useSSL
                /\ sent.SecurePort.Enabled = op.useSSL
                /\ sent.Port.Enabled # sent.SecurePort.Enabled
                /\ sent.Port.Value = facade.port
                /\ sent.SecurePort.Value = facade.port
                /\ sent.Status = "UP"
                /\ sent.LeaseInfo.EvictionDurationInSecs = op.ttl
                /\ sent.VipAddress = facade.appID
                /\ sent.SecureVipAddress = facade.appID

\* C14 witness: RegisterInstance(10.5.0.50, 3, false) for my-app on port
\* 8080 sent an Instance with port 8080 enabled and securePort disabled
C14_Witness ==
    /\ pc = "done" /\ op.name = "RegisterInstance" /\ attempts # <<>>
    /\ op.ip.text = "10.5.0.50" /\ op.ttl = 3 /\ ~op.useSSL
    /\ attempts[1].req.body.Port = [Value |-> 8080, Enabled |-> TRUE]
    /\ attempts[1].req.body.SecurePort = [Value |-> 8080, Enabled |-> FALSE]

\* C19: the failover routine returns a response or an error, never neither
\* Whenever doRequestWithFailOver has returned for a constructed client, it
\* returned exactly one of a response and an error; no operation has gone on
\* without a response, so none has died on one; and a returned operation
\* has a result for the caller.
C19_ResponseOrError ==
    /\ (foRet # Null) => ((foRet.resp = Null) # (foRet.err = NoErr))
    /\ pc # "panic"
    /\ (pc = "done") => (ret # Null /\ fret # Null)

\* C19 witness: the routine returned a response from the third URL after two
\* transport failures
C19_Witness ==
    /\ pc = "done" /\ foRet # Null /\ foRet.resp # Null /\ foRet.err = NoErr
    /\ Len(attempts) = 3
    /\ attempts[1].err # NoErr /\ attempts[2].err # NoErr

\* the routine returned an error and no response after every URL failed
C19_WitnessAllFailed ==
    /\ pc = "done" /\ foRet # Null /\ foRet.resp = Null /\ foRet.err # NoErr
    /\ Len(attempts) = NumURLs /\ NumURLs >= 2

\* at most one request per configured URL, each to a different URL
SinglePass ==
    /\ Len(attempts) <= NumURLs
    /\ \A j, k \in 1..Len(attempts) :
          j # k => (attempts[j].i # attempts[k].i /\ attempts[j].url # attempts[k].url)
    /\ (pc = "done") => (ret # Null /\ (ret.err = NoErr \/ Len(ret.err) >= 1))

C18_FacadeDelegates ==
    (pc = "done" /\ op.name # "Heartbeat") =>
        /\ \A k \in 1..Len(attempts) : attempts[k].req.name = op.name
        /\ (fret.err # NoErr) <=> (ret.err # NoErr)
        /\ (ret.err # NoErr) =>
              /\ Len(fret.err) = Len(ret.err) + 1
              /\ fret.err[1].msg = "failed to"
              /\ SubSeq(fret.err, 2, Len(fret.err)) = ret.err
        /\ (ret.err = NoErr) => fret.body = ret.body
        /\ (op.name = "RegisterInstance") =>
              ((fret.handle = Null) <=> (fret.err # NoErr))
        /\ (op.name # "RegisterInstance") => fret.handle = Null

\* C18 witness: GetInstance failed over to a server that answered 500, and
\* the facade returned its own layer around the transport's status error
C18_Witness ==
    /\ pc = "done" /\ op.name = "GetInstance" /\ Len(attempts) = 2
    /\ LastAttempt.err = NoErr /\ LastAttempt.resp.status = 500
    /\ ret.err[1].msg = "unexpected response status"
    /\ fret.err = <<[msg |-> "failed to", what |-> "GetInstance"]>> \o ret.err

\* the facade passed on the Instance that transport GetInstance decoded
C18_WitnessValue ==
    /\ pc = "done" /\ op.name = "GetInstance"
    /\ ret.err = NoErr /\ ret.body = "decoded" /\ fret.body = "decoded"

\* C15: an Instance survives the trip through XML
\* The Instance decoded from the XML encoding of an Instance equals it in
\* every field: a field that was empty is empty, an absent port, lease info
\* or metadata is absent, a port has its value and its enabled flag
\* (false included), and the metadata entries have their keys, values and
\* order.
C15_RoundTrip ==
    (decoded # Null) =>
        /\ decoded = inst
        /\ (inst.Port # Null) =>
              /\ decoded.Port.Value = inst.Port.Value
              /\ decoded.Port.Enabled = inst.Port.Enabled
        /\ (inst.Metadata # Null) =>
              decoded.Metadata.Entries = inst.Metadata.Entries

\* C15 witness: an Instance with a disabled port 8080, an enabled secure
\* port 0, no instance ID and the metadata k2=v1, k1="" in that order went
\* through XML; the port is written as text with an attribute
C15_Witness ==
    /\ decoded # Null
    /\ inst.Port = [Value |-> 8080, Enabled |-> FALSE]
    /\ inst.SecurePort = [Value |-> 0, Enabled |-> TRUE]
    /\ inst.InstanceID = ""
    /\ inst.Metadata # Null
    /\ inst.Metadata.Entries = <<[XMLName |-> "k2", Value |-> "v1"],
                                 [XMLName |-> "k1", Value |-> ""]>>
    /\ Kids(wire, "port") =
          <<Element("port", <<<<"enabled", "false">>>>, "8080", <<>>)>>
    /\ Kids(wire, "instanceId") = <<>>
    /\ decoded.Port = inst.Port /\ decoded.InstanceID = ""

\* the next step of caller p reads, or writes, c.client.Transport
ReadsTransport(p) == callers[p].pc \in {"do", "check", "read"}
WritesTransport(p) == callers[p].pc = "write"

\* C16 as stated: in every interleaving of concurrent operations and
\* WrapTransport calls, no caller is about to write a field of the client
\* while another caller is about to read or write it
C16_ConcurrentUse ==
    \A p, q \in Callers :
        (p # q /\ WritesTransport(p)) => ~(ReadsTransport(q) \/ WritesTransport(q))

\* operations alone share nothing that is written: with no WrapTransport
\* call under way or made, every caller has seen the same transport
C16_OperationsAlone ==
    (transport = <<>> /\ \A p \in Callers : callers[p].pc \in {"idle", "do"}) =>
        \A p \in Callers : callers[p].seen = <<>>

\* the heartbeat loop: one heartbeat at once, every later one set off by a
\* tick; UnregisterInstance only once the loop has returned, with the
\* context of line 72, and no heartbeat after it
LifecycleOrder ==
    /\ \A k \in 1..Len(Heartbeats) :
          /\ Heartbeats[k].trigger = (IF k = 1 THEN "immediate" ELSE "tick")
          /\ Heartbeats[k].via = "hbCtx"
    /\ (hpc \in {"sending", "select", "returned"}) => Len(Heartbeats) >= 1
    /\ (mpc \in {"unregister", "shutdownServer", "exit"}) => hpc = "returned"
    /\ \A k \in 1..Len(calls) :
          (calls[k].name = "UnregisterInstance") =>
              /\ calls[k].via = "shutdownCtx"
              /\ sigCtx = "done" /\ hpc = "returned"
              /\ \A j \in (k + 1)..Len(calls) : calls[j].name # "Heartbeat"

\* C20: the heartbeat loop and the shutdown of the example client
\* The loop sends one heartbeat at once and then one for each tick it
\* takes; once the signal has cancelled its context the loop returns;
\* UnregisterInstance is called only after the loop has returned, with the
\* context created for the shutdown and not the cancelled one, and no
\* Heartbeat is issued after it.
C20_Lifecycle ==
    /\ []LifecycleOrder
    /\ (sigCtx = "done" /\ hpc \in {"ready", "sending", "select"}) ~> (hpc = "returned")

\* C20 witness: the process registered, sent a heartbeat at once and one on
\* a tick, was signalled, and unregistered with the live shutdown context
C20_Witness ==
    /\ mpc = "exit" /\ Len(calls) = 4
    /\ calls[1].name = "RegisterInstance"
    /\ calls[2].name = "Heartbeat" /\ calls[2].trigger = "immediate"
    /\ calls[3].name = "Heartbeat" /\ calls[3].trigger = "tick"
    /\ calls[3].state = "live"
    /\ calls[4].name = "UnregisterInstance" /\ calls[4].via = "shutdownCtx"
    /\ calls[4].state = "live" /\ calls[4].res = "ok"

\* the RegisterInstance calls the process has made
Registrations == SelectSeq(calls, LAMBDA c : c.name = "RegisterInstance")

\* RegisterInstance is the first call and the only one of its name; the loop
\* has returned only if its context is cancelled
RegisteredOnce ==
    /\ Len(Registrations) <= 1
    /\ \A k \in 1..Len(calls) : (calls[k].name = "RegisterInstance") => k = 1
    /\ (hpc # "none") => (Len(Registrations) = 1 /\ calls[1].res = "ok")
    /\ (hpc = "returned") => sigCtx = "done"

\* whatever a heartbeat returns, the loop goes back to its select, and it
\* leaves the select only for another heartbeat or, the context cancelled,
\* to return; neither step makes any other call
LoopGoesOn ==
    /\ (hpc = "sending" /\ hpc' # "sending") =>
          (hpc' = "select" /\ Len(calls') = Len(calls))
    /\ (hpc = "select" /\ hpc' # "select") =>
          \/ hpc' = "sending" /\ calls' = Append(calls, calls'[Len(calls')])
                /\ calls'[Len(calls')].name = "Heartbeat"
          \/ hpc' = "returned" /\ sigCtx = "done" /\ calls' = calls

\* C21: a failed heartbeat neither stops the loop nor re-registers
\* RegisterInstance is called once, before the loop starts, and never again;
\* after any heartbeat result, not-found and failure included, the loop is
\* back at its select and returns only when its context is cancelled; and a
\* tick that arrives after a not-found or failed heartbeat is answered by
\* another heartbeat unless the context is cancelled.
C21_NoReregistration ==
    /\ []RegisteredOnce
    /\ [][LoopGoesOn]_vars
    /\ \A n \in 1..MaxBeats :
          (/\ hpc = "select" /\ tick /\ Len(Heartbeats) = n
           /\ Heartbeats[n].res \in {"notfound", "failed"})
              ~> (Len(Heartbeats) > n \/ sigCtx = "done")

\* C21 witness: the first heartbeat came back not-found with the context
\* live, a second one was sent on the next tick, and RegisterInstance has
\* been called once
C21_Witness ==
    /\ Len(Heartbeats) >= 2
    /\ Heartbeats[1].res = "notfound" /\ Heartbeats[1].state = "live"
    /\ Heartbeats[2].trigger = "tick" /\ Heartbeats[2].state = "live"
    /\ Len(Registrations) = 1
    /\ hpc = "sending" /\ sigCtx = "live"

====
